---- MODULE Spec2Model ----
(***************************************************************************)
(* Psychometricist-AI: the interview session state machine (LangGraph      *)
(* workflow, CLI and web entry points) and the multi-method scoring        *)
(* ensemble.                                                               *)
(*                                                                         *)
(* Numbers are fixed point: scores in hundredths (3.0 is 300), confidences *)
(* in thousandths (0.15 is 150), feature ratios in ten-thousandths.        *)
(* Python's round(x, n) is modelled as round-half-even of the exact value. *)
(*                                                                         *)
(* A text is a sequence of chunks, the whitespace-separated pieces of the  *)
(* string; the empty sequence is the empty or whitespace-only string.      *)
(***************************************************************************)
EXTENDS Integers, Sequences, FiniteSets, TLC

\* ------------------------------------------------------------------ bounds
MaxTurnsBound == 2

Sessions == {"s1", "s2"}

\* ------------------------------------------------------------- arithmetic
Abs(x) == IF x < 0 THEN -x ELSE x

Min(a, b) == IF a <= b THEN a ELSE b

Max(a, b) == IF a >= b THEN a ELSE b

\* round(n / d) to the nearest integer, ties to even (d > 0)
RoundDiv(n, d) ==
    LET q == n \div d
        r == n % d
    IN  IF 2 * r < d THEN q
        ELSE IF 2 * r > d THEN q + 1
        ELSE IF q % 2 = 0 THEN q ELSE q + 1

RECURSIVE SumSeq(_)
SumSeq(s) == IF s = <<>> THEN 0 ELSE Head(s) + SumSeq(Tail(s))

RECURSIVE Flatten(_)
Flatten(ss) == IF ss = <<>> THEN <<>> ELSE Head(ss) \o Flatten(Tail(ss))

SeqToSet(s) == {s[i] : i \in DOMAIN s}

\* -------------------------------------------------------------- word lists
POSITIVE_EMOTION == {"love", "party", "happy"}

NEGATIVE_EMOTION == {"hate", "alone", "sad"}

SOCIAL_REFERENCES == {"friends", "parties", "party"}

FIRST_PERSON_SINGULAR == {"i", "i'd"}

FIRST_PERSON_PLURAL == {"we"}

ASSERTIVE_LANGUAGE == {"definitely", "know", "sure"}

HEDGING_LANGUAGE == {"maybe", "guess"}

EXCITEMENT_WORDS == {"adventure"}

\* phrases as pairs of adjacent chunks: <<end of the first, start of the second>>
HEDGE_PHRASES == {<<"i", "guess">>, <<"not", "sure">>}

ASSERTIVE_PHRASES == {<<"i", "know">>}

\* --------------------------------------------------------------- tokenizer
TurnMarkers == <<"[Turn 1]", "[Turn 2]", "[Turn 3]", "[Turn 4]", "[Turn 5]", "[Turn 6]">>

TurnMarker(k) == TurnMarkers[k]

IsMarker(c) == c \in SeqToSet(TurnMarkers)

\* the chunk without its trailing run of . ! ?
Stem(c) ==
    CASE c = "friends!" -> "friends"
      [] c = "sure?" -> "sure"
      [] c = "you." -> "you"
      [] c = "!!!" -> ""
      [] OTHER -> c

\* re.findall(r"\b[a-z]+(?:'[a-z]+)?\b", chunk.lower())
WordsOf(c) ==
    CASE IsMarker(c) -> <<"turn">>
      [] c = "here," -> <<"here">>
      [] c = "42" -> <<>>
      [] Stem(c) = "" -> <<>>
      [] OTHER -> <<Stem(c)>>

_tokenize(text) == Flatten([i \in DOMAIN text |-> WordsOf(text[i])])

\* len(w.replace("'", ""))
WordLen(w) ==
    CASE w \in {"i"} -> 1
      [] w \in {"we", "to", "i'd"} -> 2
      [] w \in {"you", "sad", "not"} -> 3
      [] w \in {"love", "hate", "know", "sure", "turn", "stop", "here"} -> 4
      [] w \in {"hello", "party", "happy", "alone", "maybe", "guess", "thank"} -> 5
      [] w \in {"prefer"} -> 6
      [] w \in {"friends", "parties"} -> 7
      [] w \in {"adventure"} -> 9
      [] w \in {"definitely"} -> 10
      [] OTHER -> 4

\* text.count("!") and text.count("?") per chunk
ExclOf(c) == CASE c = "friends!" -> 1 [] c = "!!!" -> 3 [] OTHER -> 0

QuestOf(c) == IF c = "sure?" THEN 1 ELSE 0

EndsSentence(c) == Stem(c) # c

\* len(transcript.split()): a turn marker "[Turn k]" is two pieces
SplitLen(c) == IF IsMarker(c) THEN 2 ELSE 1

SplitCount(text) == SumSeq([i \in DOMAIN text |-> SplitLen(text[i])])

\* number of non-empty pieces of re.split(r'[.!?]+(?:\s|$)', text.strip());
\* open is TRUE when the piece being read already has content
RECURSIVE Pieces(_, _)
Pieces(text, open) ==
    IF text = <<>> THEN (IF open THEN 1 ELSE 0)
    ELSE LET c == Head(text)
             content == open \/ Stem(c) # ""
         IN  IF EndsSentence(c)
             THEN (IF content THEN 1 ELSE 0) + Pieces(Tail(text), FALSE)
             ELSE Pieces(Tail(text), content)

_count_sentences(text) == Max(1, Pieces(text, FALSE))

_count_matches(words, word_set) == Cardinality({i \in DOMAIN words : words[i] \in word_set})

\* lower.count(phrase) summed over the phrases: a two-word phrase occurs
\* where a chunk that is its first word is followed by a chunk that starts
\* with its second word
_count_phrase_matches(text, phrases) ==
    Cardinality({i \in 1..(Len(text) - 1) : <<text[i], Stem(text[i + 1])>> \in phrases})

\* ------------------------------------------------------ feature extraction
\* LinguisticFeatures(): every count and ratio zero
ZeroFeatures ==
    [word_count |-> 0, sentence_count |-> 0, unique_word_count |-> 0,
     exclamation_count |-> 0, question_count |-> 0,
     positive_emotion_count |-> 0, negative_emotion_count |-> 0,
     social_reference_count |-> 0, first_person_singular_count |-> 0,
     first_person_plural_count |-> 0, assertive_count |-> 0,
     hedging_count |-> 0, excitement_count |-> 0,
     hedge_phrase_count |-> 0, assertive_phrase_count |-> 0,
     avg_word_length |-> 0, avg_sentence_length |-> 0, lexical_diversity |-> 0,
     positive_emotion_ratio |-> 0, negative_emotion_ratio |-> 0,
     social_reference_ratio |-> 0, first_person_singular_ratio |-> 0,
     first_person_plural_ratio |-> 0, assertive_ratio |-> 0,
     hedging_ratio |-> 0, excitement_ratio |-> 0,
     exclamation_ratio |-> 0, question_ratio |-> 0]

\* avg_word_length and lexical_diversity in thousandths, avg_sentence_length
\* in hundredths, the ratios in ten-thousandths
extract_features(text) ==
    LET words == _tokenize(text)
        word_count == Len(words)
        sentence_count == _count_sentences(text)
        unique_word_count == Cardinality(SeqToSet(words))
        exclamation_count == SumSeq([i \in DOMAIN text |-> ExclOf(text[i])])
        question_count == SumSeq([i \in DOMAIN text |-> QuestOf(text[i])])
        hedge_phrase_count == _count_phrase_matches(text, HEDGE_PHRASES)
        assertive_phrase_count == _count_phrase_matches(text, ASSERTIVE_PHRASES)
        total_hedge == _count_matches(words, HEDGING_LANGUAGE) + hedge_phrase_count
        total_assertive == _count_matches(words, ASSERTIVE_LANGUAGE) + assertive_phrase_count
        ratio(count) == RoundDiv(count * 10000, word_count)
    IN  IF text = <<>> THEN ZeroFeatures
        ELSE IF word_count = 0 THEN ZeroFeatures
        ELSE
        [word_count |-> word_count,
         sentence_count |-> sentence_count,
         unique_word_count |-> unique_word_count,
         exclamation_count |-> exclamation_count,
         question_count |-> question_count,
         positive_emotion_count |-> _count_matches(words, POSITIVE_EMOTION),
         negative_emotion_count |-> _count_matches(words, NEGATIVE_EMOTION),
         social_reference_count |-> _count_matches(words, SOCIAL_REFERENCES),
         first_person_singular_count |-> _count_matches(words, FIRST_PERSON_SINGULAR),
         first_person_plural_count |-> _count_matches(words, FIRST_PERSON_PLURAL),
         assertive_count |-> total_assertive,
         hedging_count |-> total_hedge,
         excitement_count |-> _count_matches(words, EXCITEMENT_WORDS),
         hedge_phrase_count |-> hedge_phrase_count,
         assertive_phrase_count |-> assertive_phrase_count,
         avg_word_length |->
             RoundDiv(SumSeq([i \in DOMAIN words |-> WordLen(words[i])]) * 1000, word_count),
         avg_sentence_length |-> RoundDiv(word_count * 100, sentence_count),
         lexical_diversity |-> RoundDiv(unique_word_count * 1000, word_count),
         positive_emotion_ratio |-> ratio(_count_matches(words, POSITIVE_EMOTION)),
         negative_emotion_ratio |-> ratio(_count_matches(words, NEGATIVE_EMOTION)),
         social_reference_ratio |-> ratio(_count_matches(words, SOCIAL_REFERENCES)),
         first_person_singular_ratio |-> ratio(_count_matches(words, FIRST_PERSON_SINGULAR)),
         first_person_plural_ratio |-> ratio(_count_matches(words, FIRST_PERSON_PLURAL)),
         assertive_ratio |-> ratio(total_assertive),
         hedging_ratio |-> ratio(total_hedge),
         excitement_ratio |-> ratio(_count_matches(words, EXCITEMENT_WORDS)),
         exclamation_ratio |-> RoundDiv(exclamation_count * 10000, sentence_count),
         question_ratio |-> RoundDiv(question_count * 10000, sentence_count)]
\* ---------------------------------------------------------- classification
LOW_EXTRAVERSION_THRESHOLD == 230

HIGH_EXTRAVERSION_THRESHOLD == 360

NEUTRAL_SCORE == 300

\* the threshold function applied to the exact value num / den (den > 0),
\* num in hundredths
ClassifyRatio(num, den) ==
    IF num <= LOW_EXTRAVERSION_THRESHOLD * den THEN "Low"
    ELSE IF num <= HIGH_EXTRAVERSION_THRESHOLD * den THEN "Medium"
    ELSE "High"

classify_extraversion(score) == ClassifyRatio(score, 1)

\* ------------------------------------------------------------ rule scorer
\* WEIGHTS: weight * direction * (value - neutral_baseline) per feature, in
\* ten-thousandths of a score point
FeatureContributions(f) ==
    <<12 * (f.positive_emotion_ratio - 400),
      -8 * (f.negative_emotion_ratio - 300),
      14 * (f.social_reference_ratio - 400),
      10 * (f.first_person_plural_ratio - 150),
      10 * (f.assertive_ratio - 250),
      -8 * (f.hedging_ratio - 400),
      15 * (f.excitement_ratio - 100),
      3 * (f.exclamation_ratio - 800),
      80 * (f.word_count - 25),
      20 * (f.lexical_diversity - 650)>>

\* the result every scorer returns when it has nothing to say
Neutral(method, error, warning) ==
    [method |-> method, score |-> 300, classification |-> "Medium", confidence |-> 0,
     error |-> error, warning |-> warning]

score_with_features(features) ==
    IF features.word_count = 0 THEN Neutral("feature_based", FALSE, TRUE)
    ELSE LET raw_score == 30000 + SumSeq(FeatureContributions(features))
             score == Max(10000, Min(50000, raw_score))
         IN  [method |-> "feature_based",
              score |-> RoundDiv(score, 100),
              classification |-> ClassifyRatio(score, 100),
              confidence |-> Min(1000, RoundDiv(Abs(score - 30000) * 1000, 15000)),
              error |-> FALSE, warning |-> FALSE]

\* ------------------------------------------------------- similarity scorer
min_words == 15

\* replies of the embedding provider: it raises, or the mean cosine
\* similarities to the two reference sets, in ten-thousandths
EmbeddingReplies ==
    {[kind |-> "raise", high_sim |-> 0, low_sim |-> 0]}
    \cup {[kind |-> "ok", high_sim |-> hl[1], low_sim |-> hl[2]] :
            hl \in {<<8500, 7200>>, <<3850, 6150>>, <<0, 0>>, <<9000, 1000>>}}

\* the result computed from the similarities the provider returned
EmbeddingResult(reply) ==
    LET denom == reply.high_sim + reply.low_sim
        \* balance = num / den, 0 when high_sim + low_sim < 1e-8
        num == IF denom <= 0 THEN 0 ELSE reply.high_sim - reply.low_sim
        den == IF denom <= 0 THEN 1 ELSE denom
        \* raw_score = 3.0 + 3.0 * balance, in hundredths over den
        raw == 300 * den + 300 * num
        score == Max(100 * den, Min(500 * den, raw))
    IN  [method |-> "embedding",
         score |-> RoundDiv(score, den),
         classification |-> ClassifyRatio(score, den),
         confidence |-> Min(1000, RoundDiv(2000 * Abs(num), den)),
         error |-> FALSE, warning |-> FALSE]

\* the short-transcript test written with <= instead of <
score_with_embeddings_OffByOne(transcript, reply) ==
    IF SplitCount(transcript) <= min_words THEN Neutral("embedding", FALSE, TRUE)
    ELSE IF reply.kind = "raise" THEN Neutral("embedding", TRUE, FALSE)
    ELSE EmbeddingResult(reply)

score_with_embeddings(transcript, reply) ==
    IF SplitCount(transcript) < min_words THEN Neutral("embedding", FALSE, TRUE)
    ELSE IF reply.kind = "raise" THEN Neutral("embedding", TRUE, FALSE)
    ELSE EmbeddingResult(reply)

\* --------------------------------------------------------- judgment scorer
\* replies of the judgment model: it raises, answers text that does not
\* parse (or lacks "score"), or a JSON object; score in thousandths,
\* confidence in ten-thousandths, "" and has_confidence = FALSE for absent keys
LlmReplies ==
    {[kind |-> k, score |-> 0, classification |-> "", has_confidence |-> FALSE,
      confidence |-> 0] : k \in {"raise", "parse_error"}}
    \cup {[kind |-> "ok", score |-> r[1], classification |-> r[2],
           has_confidence |-> r[3], confidence |-> r[4]] :
            r \in {<<3750, "High", TRUE, 8000>>,
                   <<2300, "Low", TRUE, 10000>>,
                   <<9000, "High", TRUE, 25000>>,
                   <<3000, "Medium", TRUE, -5000>>,
                   <<4204, "", FALSE, 0>>}}

score_domain_level(transcript, reply) ==
    IF transcript = <<>> THEN Neutral("llm_domain", FALSE, FALSE)
    ELSE IF reply.kind = "raise" THEN Neutral("llm_domain", TRUE, FALSE)
    ELSE IF reply.kind = "parse_error" THEN Neutral("llm_domain", FALSE, FALSE)
    ELSE LET score == Max(1000, Min(5000, reply.score))
         IN  [method |-> "llm_domain",
              score |-> RoundDiv(score, 10),
              classification |-> IF reply.classification # "" THEN reply.classification
                                 ELSE ClassifyRatio(score, 1000),
              confidence |-> IF reply.has_confidence THEN RoundDiv(reply.confidence, 10)
                             ELSE 500,
              error |-> FALSE, warning |-> FALSE]

\* ---------------------------------------------------------------- ensemble
Count(seq, x) == Cardinality({i \in DOMAIN seq : seq[i] = x})

\* a vote that breaks a tie by the label voted first
_majority_vote_FirstSeen(classifications) ==
    IF classifications = <<>> THEN "Medium"
    ELSE LET labels == SeqToSet(classifications)
             winners == {c \in labels : \A d \in labels :
                            Count(classifications, d) <= Count(classifications, c)}
             first == CHOOSE i \in DOMAIN classifications :
                          /\ classifications[i] \in winners
                          /\ \A j \in DOMAIN classifications :
                                classifications[j] \in winners => i <= j
         IN  classifications[first]

\* first element of classifications with the given count (dict insertion order)
_majority_vote(classifications) ==
    IF classifications = <<>> THEN "Medium"
    ELSE LET labels == SeqToSet(classifications)
             max_count == CHOOSE n \in {Count(classifications, c) : c \in labels} :
                              \A c \in labels : Count(classifications, c) <= n
             winners == {c \in labels : Count(classifications, c) = max_count}
         IN  IF Cardinality(winners) = 1 THEN CHOOSE c \in winners : TRUE
             ELSE IF "Medium" \in winners THEN "Medium"
             ELSE IF "High" \in winners THEN "High"
             ELSE IF "Low" \in winners THEN "Low"
             ELSE "Medium"

\* a fusion that also takes the results carrying an error
Contributing_KeepsErrors(individual, run_features, run_embedding, run_llm) ==
    (IF run_features THEN <<individual.feature_based>> ELSE <<>>)
    \o (IF run_embedding THEN <<individual.embedding>> ELSE <<>>)
    \o (IF run_llm THEN <<individual.llm_domain>> ELSE <<>>)

\* the results that enter the fusion, in the order the code appends them
Contributing(individual, run_features, run_embedding, run_llm) ==
    (IF run_features THEN <<individual.feature_based>> ELSE <<>>)
    \o (IF run_embedding /\ ~individual.embedding.error
        THEN <<individual.embedding>> ELSE <<>>)
    \o (IF run_llm /\ ~individual.llm_domain.error
        THEN <<individual.llm_domain>> ELSE <<>>)

\* score_ensemble that always takes the arithmetic mean
score_ensemble_Unweighted(transcript, run_llm, run_embedding, run_features, emb_reply, llm_reply) ==
    LET individual ==
            [feature_based |-> score_with_features(extract_features(transcript)),
             embedding |-> score_with_embeddings(transcript, emb_reply),
             llm_domain |-> score_domain_level(transcript, llm_reply)]
        ran == (IF run_features THEN {"feature_based"} ELSE {})
               \cup (IF run_embedding THEN {"embedding"} ELSE {})
               \cup (IF run_llm THEN {"llm_domain"} ELSE {})
        used == Contributing(individual, run_features, run_embedding, run_llm)
        n == Len(used)
        scores == [i \in 1..n |-> used[i].score]
        confidences == [i \in 1..n |-> used[i].confidence]
        classifications == [i \in 1..n |-> used[i].classification]
        total_weight == SumSeq(confidences)
        weighted == FALSE
        \* weighted_score = num / den, in hundredths
        num == IF weighted THEN SumSeq([i \in 1..n |-> scores[i] * confidences[i]])
               ELSE SumSeq(scores)
        den == IF weighted THEN total_weight ELSE n
        ensemble_score == Max(100 * den, Min(500 * den, num))
        all_agree == Cardinality(SeqToSet(classifications)) = 1
        agreement_bonus == IF all_agree THEN 150 ELSE 0
    IN  IF n = 0
        THEN [ensemble_score |-> NEUTRAL_SCORE,
              ensemble_classification |-> classify_extraversion(NEUTRAL_SCORE),
              majority_vote_classification |-> "",
              ensemble_confidence |-> 0,
              fusion_method |-> "none",
              methods_used |-> 0,
              methods_agree |-> FALSE,
              individual_results |-> [m \in ran |-> individual[m]],
              classification_votes |-> [c \in {} |-> 0],
              warning |-> TRUE]
        ELSE [ensemble_score |-> RoundDiv(ensemble_score, den),
              ensemble_classification |-> ClassifyRatio(ensemble_score, den),
              majority_vote_classification |-> _majority_vote(classifications),
              ensemble_confidence |->
                  Min(1000, RoundDiv(SumSeq(confidences) + agreement_bonus * n, n)),
              fusion_method |-> IF weighted THEN "confidence_weighted_mean"
                                ELSE "arithmetic_mean",
              methods_used |-> n,
              methods_agree |-> all_agree,
              individual_results |-> [m \in ran |-> individual[m]],
              classification_votes |->
                  [c \in SeqToSet(classifications) |-> Count(classifications, c)],
              warning |-> FALSE]

\* score_ensemble without the agreement bonus
score_ensemble_NoBonus(transcript, run_llm, run_embedding, run_features, emb_reply, llm_reply) ==
    LET individual ==
            [feature_based |-> score_with_features(extract_features(transcript)),
             embedding |-> score_with_embeddings(transcript, emb_reply),
             llm_domain |-> score_domain_level(transcript, llm_reply)]
        ran == (IF run_features THEN {"feature_based"} ELSE {})
               \cup (IF run_embedding THEN {"embedding"} ELSE {})
               \cup (IF run_llm THEN {"llm_domain"} ELSE {})
        used == Contributing(individual, run_features, run_embedding, run_llm)
        n == Len(used)
        scores == [i \in 1..n |-> used[i].score]
        confidences == [i \in 1..n |-> used[i].confidence]
        classifications == [i \in 1..n |-> used[i].classification]
        total_weight == SumSeq(confidences)
        weighted == total_weight > 0
        \* weighted_score = num / den, in hundredths
        num == IF weighted THEN SumSeq([i \in 1..n |-> scores[i] * confidences[i]])
               ELSE SumSeq(scores)
        den == IF weighted THEN total_weight ELSE n
        ensemble_score == Max(100 * den, Min(500 * den, num))
        all_agree == Cardinality(SeqToSet(classifications)) = 1
        agreement_bonus == 0
    IN  IF n = 0
        THEN [ensemble_score |-> NEUTRAL_SCORE,
              ensemble_classification |-> classify_extraversion(NEUTRAL_SCORE),
              majority_vote_classification |-> "",
              ensemble_confidence |-> 0,
              fusion_method |-> "none",
              methods_used |-> 0,
              methods_agree |-> FALSE,
              individual_results |-> [m \in ran |-> individual[m]],
              classification_votes |-> [c \in {} |-> 0],
              warning |-> TRUE]
        ELSE [ensemble_score |-> RoundDiv(ensemble_score, den),
              ensemble_classification |-> ClassifyRatio(ensemble_score, den),
              majority_vote_classification |-> _majority_vote(classifications),
              ensemble_confidence |->
                  Min(1000, RoundDiv(SumSeq(confidences) + agreement_bonus * n, n)),
              fusion_method |-> IF weighted THEN "confidence_weighted_mean"
                                ELSE "arithmetic_mean",
              methods_used |-> n,
              methods_agree |-> all_agree,
              individual_results |-> [m \in ran |-> individual[m]],
              classification_votes |->
                  [c \in SeqToSet(classifications) |-> Count(classifications, c)],
              warning |-> FALSE]

score_ensemble(transcript, run_llm, run_embedding, run_features, emb_reply, llm_reply) ==
    LET individual ==
            [feature_based |-> score_with_features(extract_features(transcript)),
             embedding |-> score_with_embeddings(transcript, emb_reply),
             llm_domain |-> score_domain_level(transcript, llm_reply)]
        ran == (IF run_features THEN {"feature_based"} ELSE {})
               \cup (IF run_embedding THEN {"embedding"} ELSE {})
               \cup (IF run_llm THEN {"llm_domain"} ELSE {})
        used == Contributing(individual, run_features, run_embedding, run_llm)
        n == Len(used)
        scores == [i \in 1..n |-> used[i].score]
        confidences == [i \in 1..n |-> used[i].confidence]
        classifications == [i \in 1..n |-> used[i].classification]
        total_weight == SumSeq(confidences)
        weighted == total_weight > 0
        \* weighted_score = num / den, in hundredths
        num == IF weighted THEN SumSeq([i \in 1..n |-> scores[i] * confidences[i]])
               ELSE SumSeq(scores)
        den == IF weighted THEN total_weight ELSE n
        ensemble_score == Max(100 * den, Min(500 * den, num))
        all_agree == Cardinality(SeqToSet(classifications)) = 1
        agreement_bonus == IF all_agree THEN 150 ELSE 0
    IN  IF n = 0
        THEN [ensemble_score |-> NEUTRAL_SCORE,
              ensemble_classification |-> classify_extraversion(NEUTRAL_SCORE),
              majority_vote_classification |-> "",
              ensemble_confidence |-> 0,
              fusion_method |-> "none",
              methods_used |-> 0,
              methods_agree |-> FALSE,
              individual_results |-> [m \in ran |-> individual[m]],
              classification_votes |-> [c \in {} |-> 0],
              warning |-> TRUE]
        ELSE [ensemble_score |-> RoundDiv(ensemble_score, den),
              ensemble_classification |-> ClassifyRatio(ensemble_score, den),
              majority_vote_classification |-> _majority_vote(classifications),
              ensemble_confidence |->
                  Min(1000, RoundDiv(SumSeq(confidences) + agreement_bonus * n, n)),
              fusion_method |-> IF weighted THEN "confidence_weighted_mean"
                                ELSE "arithmetic_mean",
              methods_used |-> n,
              methods_agree |-> all_agree,
              individual_results |-> [m \in ran |-> individual[m]],
              classification_votes |->
                  [c \in SeqToSet(classifications) |-> Count(classifications, c)],
              warning |-> FALSE]

\* ------------------------------------------------------- session: the data
\* ids of get_all_probes(), in stored order
ProbePool == <<"p1", "p2">>

FallbackIds == <<"fallback_0", "fallback_1", "fallback_2", "fallback_3", "fallback_4">>

\* the question text the interviewer model writes from a probe: one text per
\* probe, so that the questions of different turns differ
QuestionFor(probe_id) == <<"ask", probe_id>>

\* what the human may type (after strip); <<>> is an empty message
Replies == {<<"i", "guess", "we", "love", "friends!">>}

MAX_MESSAGE_CHARS == 4000

\* a word of MAX_MESSAGE_CHARS + 1 letters
LongWord == "aaaa...a"

LongReply == <<LongWord>>

\* what a caller may send as message, after strip(): a reply, an empty
\* (or whitespace-only) message, a message over the length limit
Requests == Replies \cup {<<>>, LongReply}

\* len() of one chunk
ChunkChars(c) ==
    CASE c = LongWord -> MAX_MESSAGE_CHARS + 1
      [] c = "friends!" -> 8
      [] c \in {"here,", "sure?"} -> 5
      [] c = "you." -> 4
      [] c \in {"i'd", "!!!"} -> 3
      [] IsMarker(c) -> 8
      [] OTHER -> WordLen(c)

\* len(user_message): the chunks and one space between neighbours
CharLen(msg) ==
    IF msg = <<>> THEN 0
    ELSE SumSeq([i \in DOMAIN msg |-> ChunkChars(msg[i])]) + Len(msg) - 1

\* respond() without the length test
ValidateMessage_NoLimit(msg) == IF CharLen(msg) = 0 THEN "empty" ELSE "ok"

\* the two tests respond() makes before it invokes the graph
ValidateMessage(msg) ==
    IF CharLen(msg) = 0 THEN "empty"
    ELSE IF CharLen(msg) > MAX_MESSAGE_CHARS THEN "too_long"
    ELSE "ok"

\* "I'd prefer to stop here, thank you."
StopText == <<"i'd", "prefer", "to", "stop", "here,", "thank", "you.">>

SummaryText == <<"## Extraversion Assessment Results">>

IncompleteText == <<"The assessment is incomplete.">>

\* replies of the scoring model: it raises, answers text that is not JSON,
\* JSON without "facet_scores", JSON of another shape, or facet scores
ScorerReplies ==
    {[kind |-> k, scores |-> <<>>] : k \in {"raise", "not_json", "no_key", "bad_shape"}}
    \cup {[kind |-> "ok", scores |-> sc] : sc \in {<<>>, <<400, 350>>, <<230, 231>>}}

EmptyDict == [k \in {} |-> 0]

NoResume == <<>>

new_assessment_state(session_id, max_turns) ==
    [session_id |-> session_id,
     messages |-> <<>>,
     user_input |-> <<>>,
     probes_used |-> <<>>,
     transcript |-> <<>>,
     turn_records |-> <<>>,
     turn_features |-> <<>>,
     scoring_results |-> EmptyDict,
     overall_score |-> 0,
     classification |-> "",
     confidence |-> 0,
     facet_scores |-> <<>>,
     turn_count |-> 0,
     max_turns |-> max_turns,
     done |-> FALSE]

\* a thread id the checkpointer holds nothing for
NoThread ==
    [pc |-> "none", active |-> FALSE, handler |-> "none", resume |-> NoResume,
     st |-> new_assessment_state("", 0)]

NoResponse == [code |-> 0, status |-> "", turn |-> 0, ran |-> FALSE]

VARIABLES
    threads,       \* MemorySaver: per thread id, the checkpointed state, the
                   \* next node, and the invocation in progress if any
    http,          \* per session id, the last response the caller received
    session_logs,  \* the files under data/sessions, by file name
    ens,           \* one run of score_ensemble: inputs and result
    req,           \* the last request POST /api/respond received
    log,           \* a SessionLogger object, the clock, and the log last loaded
    inflight       \* the respond requests being handled at once for one session

vars == <<threads, http, session_logs, ens, req, log, inflight>>

NoEnsemble == [phase |-> "unused"]

NoRequest == [sent |-> FALSE, message |-> <<>>]

NoInflight == [phase |-> "unused"]

Request(msg) == [sent |-> TRUE, message |-> msg]

NoLog == [phase |-> "unused"]

\* an optional value: None, or a value
Null == <<>>

Some(x) == <<x>>
\* ------------------------------------------------------ session: the nodes
\* probe selection that skips the probes any session has used
_select_probe_Shared(probes_used) ==
    LET used == UNION {SeqToSet(threads[t].st.probes_used) : t \in Sessions}
        free == {i \in DOMAIN ProbePool : ProbePool[i] \notin used}
    IN  IF free = {} THEN ""
        ELSE ProbePool[CHOOSE i \in free : \A j \in free : i <= j]

\* probe selection that takes the last unused probe of the pool
_select_probe_Last(probes_used) ==
    LET free == {i \in DOMAIN ProbePool : ProbePool[i] \notin SeqToSet(probes_used)}
    IN  IF free = {} THEN ""
        ELSE ProbePool[CHOOSE i \in free : \A j \in free : j <= i]

\* first probe of the pool whose id is not in probes_used, "" when exhausted
_select_probe(probes_used) ==
    LET free == {i \in DOMAIN ProbePool : ProbePool[i] \notin SeqToSet(probes_used)}
    IN  IF free = {} THEN ""
        ELSE ProbePool[CHOOSE i \in free : \A j \in free : i <= j]

\* interviewer_node that starts the pool over when it is exhausted
interviewer_node_ReusesPool(st) ==
    LET probe == _select_probe(st.probes_used)
        probe_id == IF probe = "" THEN ProbePool[1] ELSE probe
    IN  [st EXCEPT !.messages = Append(@, [type |-> "ai", content |-> QuestionFor(probe_id)]),
                   !.probes_used = Append(@, probe_id)]

\* the state after interviewer_node when llm.invoke returns
interviewer_node(st) ==
    LET probe == _select_probe(st.probes_used)
        probe_id == IF probe = "" THEN FallbackIds[st.turn_count + 1] ELSE probe
    IN  [st EXCEPT !.messages = Append(@, [type |-> "ai", content |-> QuestionFor(probe_id)]),
                   !.probes_used = Append(@, probe_id)]

\* content of the last message of type "ai", <<>> when there is none
LastAiText(messages) ==
    LET ai == {i \in DOMAIN messages : messages[i].type = "ai"}
    IN  IF ai = {} THEN <<>>
        ELSE messages[CHOOSE i \in ai : \A j \in ai : j <= i].content

\* update_state that keeps only the record of the last turn
update_state_KeepsLastRecord(st) ==
    LET user_text == st.user_input
        turn_count == st.turn_count + 1
        features_dict == extract_features(user_text)
        turn_record == [turn_number |-> turn_count,
                        ai_message |-> LastAiText(st.messages),
                        user_message |-> user_text,
                        features |-> features_dict]
    IN  [st EXCEPT !.messages = Append(@, [type |-> "human", content |-> user_text]),
                   !.transcript = @ \o <<TurnMarker(st.turn_count + 1)>> \o user_text,
                   !.turn_count = turn_count,
                   !.turn_records = <<turn_record>>,
                   !.turn_features = Append(@, features_dict),
                   !.done = (turn_count >= st.max_turns)]

update_state(st) ==
    LET user_text == st.user_input
        turn_count == st.turn_count + 1
        features_dict == extract_features(user_text)
        turn_record == [turn_number |-> turn_count,
                        ai_message |-> LastAiText(st.messages),
                        user_message |-> user_text,
                        features |-> features_dict]
    IN  [st EXCEPT !.messages = Append(@, [type |-> "human", content |-> user_text]),
                   !.transcript = @ \o <<TurnMarker(st.turn_count + 1)>> \o user_text,
                   !.turn_count = turn_count,
                   !.turn_records = Append(@, turn_record),
                   !.turn_features = Append(@, features_dict),
                   !.done = (turn_count >= st.max_turns)]

\* router with the turn limit off by one
RouterToScorer_OffByOne(st) == st.done \/ st.turn_count + 1 >= st.max_turns

\* TRUE when router sends the session to the scorer
RouterToScorer(st) == st.done \/ st.turn_count >= st.max_turns

\* scorer.py's own thresholds, on the exact mean num / den
_classify(num, den) ==
    IF num <= 230 * den THEN "Low"
    ELSE IF num <= 360 * den THEN "Medium"
    ELSE "High"

\* TRUE when scorer_node raises on this reply of the scoring model
ScorerRaises(st, reply) ==
    st.transcript # <<>> /\ reply.kind \in {"raise", "bad_shape"}

\* the state after scorer_node returns
scorer_node(st, reply) ==
    IF st.transcript = <<>>
    THEN [st EXCEPT !.facet_scores = <<>>,
                    !.overall_score = 300,
                    !.classification = "Medium",
                    !.messages = Append(@, [type |-> "ai", content |-> IncompleteText])]
    ELSE LET facet_scores == IF reply.kind = "ok" THEN reply.scores
                             ELSE <<300, 300, 300, 300, 300, 300>>
             n == Len(facet_scores)
             total == SumSeq(facet_scores)
         IN  [st EXCEPT !.facet_scores = facet_scores,
                        !.overall_score = IF n = 0 THEN 300 ELSE RoundDiv(total, n),
                        !.classification = IF n = 0 THEN _classify(300, 1)
                                           ELSE _classify(total, n),
                        !.messages = Append(@, [type |-> "ai", content |-> SummaryText])]

\* web/app.py: the body of a successful response; ran records whether the
\* invocation executed a node before it returned
_extract_response(st, ran) ==
    LET is_complete == st.classification # ""
    IN  [code |-> 200,
         status |-> IF is_complete THEN "complete" ELSE "in-progress",
         turn |-> st.turn_count,
         ran |-> ran,
         overall_score |-> IF is_complete THEN Some(st.overall_score) ELSE Null,
         classification |-> IF is_complete THEN Some(st.classification) ELSE Null,
         confidence |-> IF is_complete THEN Some(st.confidence) ELSE Null,
         scoring_results |-> IF is_complete THEN Some(st.scoring_results) ELSE Null,
         facet_scores |-> IF is_complete THEN Some(st.facet_scores) ELSE Null]

ErrorResponse(code) == [code |-> code, status |-> "error", turn |-> 0, ran |-> FALSE]
\* ---------------------------------------------------- session: the actions
Running(s, node) == threads[s].active /\ threads[s].pc = node

Suspended(s) == ~threads[s].active /\ threads[s].pc = "human_turn"

Terminated(s) == ~threads[s].active /\ threads[s].pc = "end"

\* graph.invoke returned normally: the caller receives the state
Returned(t) == [t EXCEPT !.active = FALSE, !.handler = "none", !.resume = NoResume]

\* a node raised: the checkpoint of the last completed step stays; the web
\* handlers answer with an error, the CLI process dies with its MemorySaver
Raised(t) == IF t.handler = "cli" THEN NoThread ELSE Returned(t)

RaisedResponse(t) == ErrorResponse(IF t.handler = "respond" THEN 400 ELSE 500)

Init ==
    /\ threads = [s \in Sessions |-> NoThread]
    /\ http = [s \in Sessions |-> NoResponse]
    /\ session_logs = EmptyDict
    /\ ens = NoEnsemble
    /\ req = NoRequest
    /\ log = NoLog
    /\ inflight = NoInflight

\* POST /api/start, main(): graph.invoke(initial_state, config)
StartSession(s) ==
    /\ threads[s].pc = "none"
    /\ \E n \in 1..MaxTurnsBound, h \in {"start", "cli"} :
         threads' = [threads EXCEPT ![s] =
             [pc |-> "router", active |-> TRUE, handler |-> h, resume |-> NoResume,
              st |-> new_assessment_state(s, n)]]
    /\ http' = [http EXCEPT ![s] = NoResponse]
    /\ UNCHANGED <<session_logs, ens, req, log, inflight>>

Router(s) ==
    /\ Running(s, "router")
    /\ threads' = [threads EXCEPT ![s] =
           IF RouterToScorer(@.st)
           THEN [@ EXCEPT !.pc = "scorer", !.st.done = TRUE]
           ELSE [@ EXCEPT !.pc = "interviewer"]]
    /\ UNCHANGED <<http, session_logs, ens, req, log, inflight>>

Interviewer(s) ==
    /\ Running(s, "interviewer")
    /\ threads' = [threads EXCEPT ![s] =
           [@ EXCEPT !.pc = "human_turn", !.st = interviewer_node(@)]]
    /\ UNCHANGED <<http, session_logs, ens, req, log, inflight>>

\* llm.invoke (or the probe store) raises inside interviewer_node
InterviewerFails(s) ==
    /\ Running(s, "interviewer")
    /\ threads' = [threads EXCEPT ![s] = Raised(@)]
    /\ http' = [http EXCEPT ![s] = RaisedResponse(threads[s])]
    /\ UNCHANGED <<session_logs, ens, req, log, inflight>>

\* human_turn with no resume value: interrupt() suspends the graph
HumanTurnInterrupt(s) ==
    /\ Running(s, "human_turn")
    /\ threads[s].resume = NoResume
    /\ threads' = [threads EXCEPT ![s] = Returned(@)]
    /\ http' = [http EXCEPT ![s] = _extract_response(threads[s].st, TRUE)]
    /\ UNCHANGED <<session_logs, ens, req, log, inflight>>

\* human_turn resumed: interrupt() returns the resume value
HumanTurnResume(s) ==
    /\ Running(s, "human_turn")
    /\ threads[s].resume # NoResume
    /\ threads' = [threads EXCEPT ![s] =
           [@ EXCEPT !.pc = "update_state", !.st.user_input = threads[s].resume,
                     !.resume = NoResume]]
    /\ UNCHANGED <<http, session_logs, ens, req, log, inflight>>

UpdateState(s) ==
    /\ Running(s, "update_state")
    /\ threads' = [threads EXCEPT ![s] =
           [@ EXCEPT !.pc = "router", !.st = update_state(@)]]
    /\ UNCHANGED <<http, session_logs, ens, req, log, inflight>>

\* scorer_node returns and the graph reaches END
Scorer(s) ==
    /\ Running(s, "scorer")
    /\ \E reply \in ScorerReplies :
         /\ ~ScorerRaises(threads[s].st, reply)
         /\ threads' = [threads EXCEPT ![s] =
                Returned([@ EXCEPT !.pc = "end", !.st = scorer_node(@, reply)])]
         /\ http' = [http EXCEPT ![s] =
                _extract_response(scorer_node(threads[s].st, reply), TRUE)]
    /\ UNCHANGED <<session_logs, ens, req, log, inflight>>

\* the scoring model call raises, or its reply has a shape the parse does
\* not guard against
ScorerFails(s) ==
    /\ Running(s, "scorer")
    /\ \E reply \in ScorerReplies : ScorerRaises(threads[s].st, reply)
    /\ threads' = [threads EXCEPT ![s] = Raised(@)]
    /\ http' = [http EXCEPT ![s] = RaisedResponse(threads[s])]
    /\ UNCHANGED <<session_logs, ens, req, log, inflight>>

\* POST /api/respond with an empty or whitespace-only message
RespondEmpty(s, msg) ==
    /\ ~threads[s].active
    /\ ValidateMessage(msg) = "empty"
    /\ http' = [http EXCEPT ![s] = ErrorResponse(400)]
    /\ UNCHANGED <<threads, session_logs, ens, log, inflight>>

\* POST /api/respond with a message of more than MAX_MESSAGE_CHARS characters
RespondTooLong(s, msg) ==
    /\ ~threads[s].active
    /\ ValidateMessage(msg) = "too_long"
    /\ http' = [http EXCEPT ![s] = ErrorResponse(400)]
    /\ UNCHANGED <<threads, session_logs, ens, log, inflight>>

\* POST /api/respond for a thread id without checkpoint: the resume raises
RespondUnknown(s, msg) ==
    /\ ~threads[s].active
    /\ ValidateMessage(msg) = "ok"
    /\ threads[s].pc = "none"
    /\ http' = [http EXCEPT ![s] = ErrorResponse(400)]
    /\ UNCHANGED <<threads, session_logs, ens, log, inflight>>

\* POST /api/respond for a suspended session: graph.invoke(Command(resume=msg))
Respond(s, msg) ==
    /\ Suspended(s)
    /\ ValidateMessage(msg) = "ok"
    /\ threads' = [threads EXCEPT ![s] =
           [@ EXCEPT !.active = TRUE, !.handler = "respond", !.resume = msg]]
    /\ UNCHANGED <<http, session_logs, ens, log, inflight>>

\* a resume after END that runs the scorer node again
RespondFinished_Rescores(s, msg) ==
    /\ Terminated(s)
    /\ ValidateMessage(msg) = "ok"
    /\ threads' = [threads EXCEPT ![s] =
           [@ EXCEPT !.pc = "scorer", !.active = TRUE, !.handler = "respond"]]
    /\ UNCHANGED <<http, session_logs, ens, log, inflight>>

\* POST /api/respond after END: no node is pending, the final state returns
RespondFinished(s, msg) ==
    /\ Terminated(s)
    /\ ValidateMessage(msg) = "ok"
    /\ http' = [http EXCEPT ![s] = _extract_response(threads[s].st, FALSE)]
    /\ UNCHANGED <<threads, session_logs, ens, log, inflight>>

\* POST /api/respond after a failed invocation: the pending node runs again;
\* the resume value is not kept past that step
RespondRetry(s, msg) ==
    /\ ~threads[s].active
    /\ ValidateMessage(msg) = "ok"
    /\ threads[s].pc \in {"router", "interviewer", "update_state", "scorer"}
    /\ threads' = [threads EXCEPT ![s] = [@ EXCEPT !.active = TRUE, !.handler = "respond"]]
    /\ UNCHANGED <<http, session_logs, ens, log, inflight>>

\* main(): the user types 'quit'
Quit(s) ==
    /\ Suspended(s)
    /\ threads' = [threads EXCEPT ![s] =
           [@ EXCEPT !.active = TRUE, !.handler = "cli", !.resume = StopText]]
    /\ UNCHANGED <<http, session_logs, ens, req, log, inflight>>

\* the process exits and starts again: build_graph() makes a new MemorySaver
Restart ==
    /\ \E s \in Sessions : threads[s].pc # "none"
    /\ threads' = [s \in Sessions |-> NoThread]
    /\ UNCHANGED <<http, session_logs, ens, req, log, inflight>>

Next ==
    \/ \E s \in Sessions : StartSession(s)
    \/ \E s \in Sessions : Router(s)
    \/ \E s \in Sessions : Interviewer(s)
    \/ \E s \in Sessions : InterviewerFails(s)
    \/ \E s \in Sessions : HumanTurnInterrupt(s)
    \/ \E s \in Sessions : HumanTurnResume(s)
    \/ \E s \in Sessions : UpdateState(s)
    \/ \E s \in Sessions : Scorer(s)
    \/ \E s \in Sessions : ScorerFails(s)
    \/ \E s \in Sessions, msg \in Requests : RespondEmpty(s, msg) /\ UNCHANGED req
    \/ \E s \in Sessions, msg \in Requests : RespondTooLong(s, msg) /\ UNCHANGED req
    \/ \E s \in Sessions, msg \in Requests : RespondUnknown(s, msg) /\ UNCHANGED req
    \/ \E s \in Sessions, msg \in Requests : Respond(s, msg) /\ UNCHANGED req
    \/ \E s \in Sessions, msg \in Requests : RespondFinished(s, msg) /\ UNCHANGED req
    \/ \E s \in Sessions, msg \in Requests : RespondRetry(s, msg) /\ UNCHANGED req
    \/ \E s \in Sessions : Quit(s)
    \/ Restart

Spec == Init /\ [][Next]_vars
\* --------------------------------------------- ensemble: the specification
\* transcripts handed to score_ensemble: empty, without any word (short, and
\* min_words pieces long), short interviews and one of min_words pieces
EnsembleTranscripts ==
    {<<>>,
     <<"!!!">>,
     [i \in 1..min_words |-> "!!!"],
     <<"[Turn 1]", "hello">>,
     <<"[Turn 1]", "hello", "!!!">>,
     <<"[Turn 1]", "i", "guess", "we", "love", "friends!",
       "[Turn 2]", "i", "guess", "we", "love", "friends!", "hello">>,
     <<"[Turn 1]", "i", "hate", "parties", "maybe", "i", "guess", "alone",
       "[Turn 2]", "maybe", "sad", "not", "sure?">>}

InitEns ==
    /\ threads = [s \in Sessions |-> NoThread]
    /\ http = [s \in Sessions |-> NoResponse]
    /\ session_logs = EmptyDict
    /\ req = NoRequest
    /\ log = NoLog
    /\ inflight = NoInflight
    /\ ens \in [phase : {"input"},
                transcript : EnsembleTranscripts,
                run_llm : BOOLEAN, run_embedding : BOOLEAN, run_features : BOOLEAN,
                emb_reply : EmbeddingReplies,
                llm_reply : LlmReplies,
                result : {[fusion_method |-> "pending"]}]

ScoreEnsemble ==
    /\ ens.phase = "input"
    /\ ens' = [ens EXCEPT !.phase = "done",
                          !.result = score_ensemble(ens.transcript, ens.run_llm,
                                                    ens.run_embedding, ens.run_features,
                                                    ens.emb_reply, ens.llm_reply)]
    /\ UNCHANGED <<threads, http, session_logs, req, log, inflight>>

NextEns == ScoreEnsemble

SpecEns == InitEns /\ [][NextEns]_vars

\* ---------------------------------------------------------- session logger
\* JSON values as json.dump writes them and json.load reads them
JNum(n) == [json |-> "number", v |-> n]

JStr(x) == [json |-> "string", v |-> x]

JBool(b) == [json |-> "bool", v |-> b]

JNull == [json |-> "null", v |-> 0]

JArr(seq) == [json |-> "array", v |-> seq]

JObj(f) == [json |-> "object", v |-> f]

\* one scorer's result dict; the flags stand for its "error"/"warning" keys
JsonDumpResult(r) ==
    JObj([method |-> JStr(r.method), score |-> JNum(r.score),
          classification |-> JStr(r.classification), confidence |-> JNum(r.confidence),
          error |-> JBool(r.error), warning |-> JBool(r.warning)])

JsonLoadResult(j) ==
    [method |-> j.v.method.v, score |-> j.v.score.v,
     classification |-> j.v.classification.v, confidence |-> j.v.confidence.v,
     error |-> j.v.error.v, warning |-> j.v.warning.v]

\* the dict score_ensemble returns; {} when nothing was logged
JsonDumpScoring(r) ==
    IF DOMAIN r = {} THEN JObj(EmptyDict)
    ELSE JObj([ensemble_score |-> JNum(r.ensemble_score),
               ensemble_classification |-> JStr(r.ensemble_classification),
               majority_vote_classification |-> JStr(r.majority_vote_classification),
               ensemble_confidence |-> JNum(r.ensemble_confidence),
               fusion_method |-> JStr(r.fusion_method),
               methods_used |-> JNum(r.methods_used),
               methods_agree |-> JBool(r.methods_agree),
               individual_results |->
                   JObj([m \in DOMAIN r.individual_results |->
                            JsonDumpResult(r.individual_results[m])]),
               classification_votes |->
                   JObj([c \in DOMAIN r.classification_votes |->
                            JNum(r.classification_votes[c])]),
               warning |-> JBool(r.warning)])

JsonLoadScoring(j) ==
    IF DOMAIN j.v = {} THEN EmptyDict
    ELSE [ensemble_score |-> j.v.ensemble_score.v,
          ensemble_classification |-> j.v.ensemble_classification.v,
          majority_vote_classification |-> j.v.majority_vote_classification.v,
          ensemble_confidence |-> j.v.ensemble_confidence.v,
          fusion_method |-> j.v.fusion_method.v,
          methods_used |-> j.v.methods_used.v,
          methods_agree |-> j.v.methods_agree.v,
          individual_results |->
              [m \in DOMAIN j.v.individual_results.v |->
                  JsonLoadResult(j.v.individual_results.v[m])],
          classification_votes |->
              [c \in DOMAIN j.v.classification_votes.v |->
                  j.v.classification_votes.v[c].v],
          warning |-> j.v.warning.v]

\* one entry of SessionLogger.turns
JsonDumpTurn(t) ==
    JObj([turn_number |-> JNum(t.turn_number), timestamp |-> JStr(t.timestamp),
          probe_id |-> JStr(t.probe_id), ai_message |-> JStr(t.ai_message),
          user_message |-> JStr(t.user_message),
          features |-> JObj([k \in DOMAIN t.features |-> JNum(t.features[k])])])

JsonLoadTurn(j) ==
    [turn_number |-> j.v.turn_number.v, timestamp |-> j.v.timestamp.v,
     probe_id |-> j.v.probe_id.v, ai_message |-> j.v.ai_message.v,
     user_message |-> j.v.user_message.v,
     features |-> [k \in DOMAIN j.v.features.v |-> j.v.features.v[k].v]]

\* json.dump(self.to_dict(), f)
JsonDump(doc) ==
    JObj([session_id |-> JStr(doc.session_id),
          started_at |-> JStr(doc.started_at),
          completed_at |-> IF doc.completed_at = Null THEN JNull
                           ELSE JStr(doc.completed_at[1]),
          total_turns |-> JNum(doc.total_turns),
          turns |-> JArr([i \in DOMAIN doc.turns |-> JsonDumpTurn(doc.turns[i])]),
          scoring |-> JsonDumpScoring(doc.scoring)])

\* json.load(f)
JsonLoad(j) ==
    [session_id |-> j.v.session_id.v,
     started_at |-> j.v.started_at.v,
     completed_at |-> IF j.v.completed_at.json = "null" THEN Null
                      ELSE Some(j.v.completed_at.v),
     total_turns |-> j.v.total_turns.v,
     turns |-> [i \in DOMAIN j.v.turns.v |-> JsonLoadTurn(j.v.turns.v[i])],
     scoring |-> JsonLoadScoring(j.v.scoring)]

\* SessionLogger.__init__ at time now
SessionLogger(session_id, now) ==
    [session_id |-> session_id, started_at |-> now, completed_at |-> Null,
     turns |-> <<>>, scoring |-> EmptyDict]

log_turn(lg, now, turn_number, ai_message, user_message, probe_id, features) ==
    [lg EXCEPT !.turns = Append(@, [turn_number |-> turn_number,
                                    timestamp |-> now,
                                    probe_id |-> probe_id,
                                    ai_message |-> ai_message,
                                    user_message |-> user_message,
                                    features |-> features])]

log_scoring(lg, now, scoring_results) ==
    [lg EXCEPT !.scoring = scoring_results, !.completed_at = Some(now)]

\* a serialization that leaves the scoring section empty
to_dict_NoScoring(lg) ==
    [session_id |-> lg.session_id,
     started_at |-> lg.started_at,
     completed_at |-> lg.completed_at,
     total_turns |-> Len(lg.turns),
     turns |-> lg.turns,
     scoring |-> EmptyDict]

to_dict(lg) ==
    [session_id |-> lg.session_id,
     started_at |-> lg.started_at,
     completed_at |-> lg.completed_at,
     total_turns |-> Len(lg.turns),
     turns |-> lg.turns,
     scoring |-> lg.scoring]

\* the logger after save(): completed_at is set if it was not
Completed(lg, now) ==
    IF lg.completed_at = Null THEN [lg EXCEPT !.completed_at = Some(now)] ELSE lg

\* "{session_id}_{timestamp}.json", the timestamp in whole seconds
FileName(session_id, now) == <<session_id, now>>

\* open(filepath, "w") and json.dump: the file of that name is replaced
WriteFile(files, name, text) ==
    [n \in DOMAIN files \cup {name} |-> IF n = name THEN text ELSE files[n]]

load_session(files, name) == JsonLoad(files[name])

\* ------------------------------------------- logger: the specification
MaxClock == 1

MaxLogTurns == 1

LogSession == "s1"

\* results of score_ensemble handed to log_scoring
LoggedResults ==
    {score_ensemble(<<"[Turn 1]", "i", "guess", "we", "love", "friends!",
                      "[Turn 2]", "i", "guess", "we", "love", "friends!", "hello">>,
                    TRUE, TRUE, TRUE,
                    [kind |-> "ok", high_sim |-> 8500, low_sim |-> 7200],
                    [kind |-> "ok", score |-> 3750, classification |-> "High",
                     has_confidence |-> TRUE, confidence |-> 8000]),
     score_ensemble(<<"[Turn 1]", "hello">>, TRUE, TRUE, TRUE,
                    [kind |-> "raise", high_sim |-> 0, low_sim |-> 0],
                    [kind |-> "raise", score |-> 0, classification |-> "",
                     has_confidence |-> FALSE, confidence |-> 0])}

\* a logger just constructed; nothing saved, nothing loaded; synced is TRUE
\* while nothing was logged since the last save
InitLog ==
    /\ threads = [s \in Sessions |-> NoThread]
    /\ http = [s \in Sessions |-> NoResponse]
    /\ session_logs = EmptyDict
    /\ ens = NoEnsemble
    /\ req = NoRequest
    /\ log = [phase |-> "open",
              logger |-> SessionLogger(LogSession, 0),
              clock |-> 0,
              last_saved |-> Null,
              synced |-> FALSE,
              loaded |-> Null]
    /\ inflight = NoInflight

LogTurn ==
    /\ Len(log.logger.turns) < MaxLogTurns
    /\ \E user_message \in Replies :
         LET n == Len(log.logger.turns) + 1
             probe_id == IF n <= Len(ProbePool) THEN ProbePool[n] ELSE FallbackIds[n]
         IN  log' = [log EXCEPT
                 !.logger = log_turn(@, log.clock, n, QuestionFor(probe_id), user_message,
                                     probe_id, extract_features(user_message)),
                 !.synced = FALSE]
    /\ UNCHANGED <<threads, http, session_logs, ens, req, inflight>>

LogScoring ==
    /\ \E r \in LoggedResults :
         /\ log.logger.scoring # r
         /\ log' = [log EXCEPT !.logger = log_scoring(@, log.clock, r), !.synced = FALSE]
    /\ UNCHANGED <<threads, http, session_logs, ens, req, inflight>>

Save ==
    LET lg == Completed(log.logger, log.clock)
        name == FileName(lg.session_id, log.clock)
    IN  /\ session_logs' = WriteFile(session_logs, name, JsonDump(to_dict(lg)))
        /\ log' = [log EXCEPT !.logger = lg, !.last_saved = Some(name), !.synced = TRUE]
        /\ UNCHANGED <<threads, http, ens, req, inflight>>

\* a second passes
Tick ==
    /\ log.clock < MaxClock
    /\ log' = [log EXCEPT !.clock = @ + 1]
    /\ UNCHANGED <<threads, http, session_logs, ens, req, inflight>>

LoadSession ==
    /\ \E name \in DOMAIN session_logs :
         log' = [log EXCEPT
             !.loaded = Some([name |-> name, doc |-> load_session(session_logs, name)])]
    /\ UNCHANGED <<threads, http, session_logs, ens, req, inflight>>

NextLog == LogTurn \/ LogScoring \/ Save \/ Tick \/ LoadSession

SpecLog == InitLog /\ [][NextLog]_vars

\* ------------------------------------------ web session: the specification
\* one session of the web application, with each request to /api/respond
\* recorded as it arrives
WebSession == "s1"

RecordRequest(msg) == req' = Request(msg)

NextWeb ==
    \/ StartSession(WebSession)
    \/ Router(WebSession)
    \/ Interviewer(WebSession)
    \/ InterviewerFails(WebSession)
    \/ HumanTurnInterrupt(WebSession)
    \/ HumanTurnResume(WebSession)
    \/ UpdateState(WebSession)
    \/ Scorer(WebSession)
    \/ ScorerFails(WebSession)
    \/ \E msg \in Requests : RespondEmpty(WebSession, msg) /\ RecordRequest(msg)
    \/ \E msg \in Requests : RespondTooLong(WebSession, msg) /\ RecordRequest(msg)
    \/ \E msg \in Requests : RespondUnknown(WebSession, msg) /\ RecordRequest(msg)
    \/ \E msg \in Requests : Respond(WebSession, msg) /\ RecordRequest(msg)
    \/ \E msg \in Requests : RespondFinished(WebSession, msg) /\ RecordRequest(msg)
    \/ \E msg \in Requests : RespondRetry(WebSession, msg) /\ RecordRequest(msg)
    \/ Quit(WebSession)
    \/ Restart

SpecWeb == Init /\ [][NextWeb]_vars

\* --------------------------------- long interview: the specification
MaxLongTurns == 3

\* POST /api/start has invoked the graph for one session whose max_turns may
\* exceed the size of the probe pool
InitLong ==
    /\ \E n \in 1..MaxLongTurns :
         threads = [s \in Sessions |->
             IF s = WebSession
             THEN [pc |-> "router", active |-> TRUE, handler |-> "start",
                   resume |-> NoResume, st |-> new_assessment_state(s, n)]
             ELSE NoThread]
    /\ http = [s \in Sessions |-> NoResponse]
    /\ session_logs = EmptyDict
    /\ ens = NoEnsemble
    /\ req = NoRequest
    /\ log = NoLog
    /\ inflight = NoInflight

\* a reply in which the human types the text of a turn marker
MarkerReply == <<"[Turn 2]", "hello">>

\* the steps of the web session, and a respond request with MarkerReply
NextLong ==
    \/ NextWeb
    \/ Respond(WebSession, MarkerReply) /\ RecordRequest(MarkerReply)

SpecLong == InitLong /\ [][NextLong]_vars

\* ------------------------- one session, two requests at once: the specification
\* respond() is a plain def that FastAPI runs on a worker thread; it takes no
\* lock and turns no request away while another one for the same session_id
\* is inside graph.invoke.  Each invocation loads the checkpoint of the
\* thread id when it starts, runs the nodes on its own copy of the state and
\* saves the state it reached; the checkpoint left is the one saved last.
Callers == {1, 2}

MaxRaceTurns == 2

MaxRaceRequests == 3

RaceReplies == Replies \cup {StopText}

NoCall == [stage |-> "idle", message |-> <<>>, snapshot |-> NoThread]

\* the thread graph.invoke(Command(resume=msg)) leaves when it starts from
\* checkpoint t and both model calls return: human_turn, update_state,
\* router, then interviewer up to the next interrupt or scorer up to END
ResumeRun(t, msg, reply) ==
    IF t.pc = "human_turn"
    THEN LET st1 == update_state([t.st EXCEPT !.user_input = msg])
         IN  IF RouterToScorer(st1)
             THEN [t EXCEPT !.pc = "end",
                            !.st = scorer_node([st1 EXCEPT !.done = TRUE], reply)]
             ELSE [t EXCEPT !.pc = "human_turn", !.st = interviewer_node(st1)]
    ELSE t

\* a session suspended at its first question, no request in progress
InitRace ==
    /\ \E n \in 1..MaxRaceTurns :
         LET st == interviewer_node(new_assessment_state(WebSession, n))
         IN  /\ threads = [s \in Sessions |->
                    IF s = WebSession
                    THEN [pc |-> "human_turn", active |-> FALSE, handler |-> "none",
                          resume |-> NoResume, st |-> st]
                    ELSE NoThread]
             /\ http = [s \in Sessions |->
                    IF s = WebSession THEN _extract_response(st, TRUE) ELSE NoResponse]
    /\ session_logs = EmptyDict
    /\ ens = NoEnsemble
    /\ req = NoRequest
    /\ log = NoLog
    /\ inflight = [phase |-> "open",
                   calls |-> [c \in Callers |-> NoCall],
                   requests |-> 0,
                   answered |-> <<>>]

\* respond() up to the point where graph.invoke has loaded the checkpoint
RespondLoad(c, msg) ==
    /\ inflight.phase = "open"
    /\ inflight.calls[c].stage = "idle"
    /\ inflight.requests < MaxRaceRequests
    /\ ValidateMessage(msg) = "ok"
    /\ inflight' = [inflight EXCEPT
           !.calls[c] = [stage |-> "loaded", message |-> msg,
                         snapshot |-> threads[WebSession]],
           !.requests = @ + 1]
    /\ UNCHANGED <<threads, http, session_logs, ens, req, log>>

\* the rest of respond(): the nodes run on the loaded state, the state reached
\* is saved and returned; after END nothing runs and nothing is saved
RespondSave(c) ==
    /\ inflight.phase = "open"
    /\ inflight.calls[c].stage = "loaded"
    /\ LET call == inflight.calls[c]
           resumed == call.snapshot.pc = "human_turn"
       IN  \E reply \in ScorerReplies :
             /\ ~ScorerRaises(update_state([call.snapshot.st EXCEPT
                                               !.user_input = call.message]), reply)
             /\ LET t == ResumeRun(call.snapshot, call.message, reply)
                IN  /\ threads' = [threads EXCEPT ![WebSession] =
                           IF resumed THEN t ELSE @]
                    /\ http' = [http EXCEPT ![WebSession] =
                           _extract_response(t.st, resumed)]
                    /\ inflight' = [inflight EXCEPT
                           !.calls[c] = NoCall,
                           !.answered = IF resumed THEN Append(@, call.message) ELSE @]
    /\ UNCHANGED <<session_logs, ens, req, log>>

NextRace ==
    \/ \E c \in Callers, msg \in RaceReplies : RespondLoad(c, msg)
    \/ \E c \in Callers : RespondSave(c)

SpecRace == InitRace /\ [][NextRace]_vars

\* --------------------------------- one session to its end: the specification
\* every model call returns and the human answers every question: llm.invoke
\* never raises or hangs, but the scoring model may return a reply of a shape
\* the parse does not guard against (scorer.py:127-157)
ScorerMalformedReply(s) ==
    /\ Running(s, "scorer")
    /\ \E reply \in ScorerReplies :
         reply.kind = "bad_shape" /\ ScorerRaises(threads[s].st, reply)
    /\ threads' = [threads EXCEPT ![s] = Raised(@)]
    /\ http' = [http EXCEPT ![s] = RaisedResponse(threads[s])]
    /\ UNCHANGED <<session_logs, ens, req, log, inflight>>

\* a step of graph.invoke: the node that is next runs
GraphStep(s) ==
    \/ Router(s)
    \/ Interviewer(s)
    \/ HumanTurnInterrupt(s)
    \/ HumanTurnResume(s)
    \/ UpdateState(s)
    \/ Scorer(s)
    \/ ScorerMalformedReply(s)

\* the human answers the question: a reply, or 'quit' at the CLI prompt
HumanAnswers(s) ==
    \/ \E msg \in Replies : Respond(s, msg) /\ UNCHANGED req
    \/ Quit(s)

NextLive ==
    \/ StartSession(WebSession)
    \/ GraphStep(WebSession)
    \/ HumanAnswers(WebSession)
    \/ \E msg \in Replies : RespondRetry(WebSession, msg) /\ UNCHANGED req
    \/ \E msg \in Replies : RespondFinished(WebSession, msg) /\ UNCHANGED req

\* graph.invoke runs its nodes one after the other until it returns, and the
\* human answers every question
SpecLive ==
    /\ Init
    /\ [][NextLive]_vars
    /\ WF_vars(GraphStep(WebSession))
    /\ WF_vars(HumanAnswers(WebSession))

\* ------------------------------------------------------------------ claims
Thread(s) == threads[s]

State(s) == threads[s].st

\* C1: while a session exists, turn_count changes only in update_state and
\* then by exactly +1, max_turns never changes, and router goes to the scorer
\* exactly when turn_count = max_turns and to the interviewer only below it.
C1_Step(s) ==
    LET a == threads[s]
        b == threads'[s]
    IN  (a.pc # "none" /\ b.pc # "none") =>
          /\ b.st.max_turns = a.st.max_turns
          /\ (a.pc = "update_state" /\ b.pc = "router")
                => b.st.turn_count = a.st.turn_count + 1
          /\ b.st.turn_count # a.st.turn_count
                => (a.pc = "update_state" /\ b.pc = "router")
          /\ (a.pc = "router" /\ b.pc = "scorer")
                => a.st.turn_count = a.st.max_turns
          /\ (a.pc = "router" /\ b.pc = "interviewer")
                => a.st.turn_count < a.st.max_turns
          /\ (a.pc = "router" /\ b.pc # "router") => b.pc \in {"scorer", "interviewer"}

C1_TurnCountAndRouting ==
    /\ [](\A s \in Sessions : State(s).turn_count <= State(s).max_turns)
    /\ [][\A s \in Sessions : C1_Step(s)]_vars

\* a session of two turns has been routed to the scorer after its second reply
C1_Witness ==
    \E s \in Sessions :
        /\ Thread(s).pc = "scorer"
        /\ State(s).max_turns = 2
        /\ State(s).turn_count = 2
        /\ Len(State(s).turn_records) = 2

\* the EnsembleResult fields the end-to-end test reads from the final state
Populated(st) ==
    /\ "ensemble_score" \in DOMAIN st.scoring_results
    /\ "individual_results" \in DOMAIN st.scoring_results
    /\ "feature_based" \in DOMAIN st.scoring_results.individual_results
    /\ st.classification = st.scoring_results.ensemble_classification
    /\ st.overall_score = st.scoring_results.ensemble_score
    /\ st.confidence = st.scoring_results.ensemble_confidence

\* C2: once max_turns replies have been processed and the invocation has
\* returned normally, the session is Terminated and its state holds a
\* populated EnsembleResult.
C2_PopulatedEnsembleAfterMaxTurns ==
    \A s \in Sessions :
        ( /\ ~Thread(s).active
          /\ Thread(s).pc # "none"
          /\ State(s).turn_count = State(s).max_turns
          /\ http[s].code = 200 )
        => (Thread(s).pc = "end" /\ Populated(State(s)))

\* C3: after the synthetic stop turn no further question is generated: the
\* session goes through update_state and router to the scorer and END.
C3_StopForcesFinalizing ==
    \A s \in Sessions :
        State(s).user_input = StopText
            => Thread(s).pc \in {"none", "update_state", "router", "scorer", "end"}

\* C4: a session suspended in human_turn keeps its position and its state
\* until a reply resumes it.
C4_SuspendedSessionSurvives ==
    [][\A s \in Sessions :
         Suspended(s) => (threads'[s].pc = "human_turn" /\ threads'[s].st = threads[s].st)]_vars

\* C5: a session reaches END only with the result of the Ensemble Fuser
\* stored in scoring_results and a session log persisted for it.
C5_TerminatedOnlyAfterFuseStoreLog ==
    \A s \in Sessions :
        Thread(s).pc = "end"
            => /\ "ensemble_score" \in DOMAIN State(s).scoring_results
               /\ "fusion_method" \in DOMAIN State(s).scoring_results
               /\ \E name \in DOMAIN session_logs : name[1] = s

\* C6: while a Terminated session exists no step changes its checkpoint, and
\* a respond request for it is answered from the stored state without
\* running a node.
C6_TerminatedIsImmutable ==
    [][\A s \in Sessions :
         (Terminated(s) /\ threads'[s].pc # "none") =>
            /\ threads'[s] = threads[s]
            /\ http'[s] # http[s] =>
                 http'[s] \in {_extract_response(State(s), FALSE), ErrorResponse(400)}]_vars

\* a respond request has been answered for a Terminated session
C6_Witness ==
    \E s \in Sessions :
        /\ Terminated(s)
        /\ http[s] = _extract_response(State(s), FALSE)
        /\ http[s].status = "complete"
        /\ State(s).turn_count = 2

\* C7: whatever the external calls do, an invocation that is over has left
\* the session in AwaitingHumanInput or in Terminated.
C7_NeverStuckAfterFailure ==
    \A s \in Sessions :
        ~Thread(s).active => Thread(s).pc \in {"none", "human_turn", "end"}
EnsDone == ens.phase = "done"

\* every enabled scorer failed: the rule scorer had no word to analyse, the
\* embedding and the judgment provider raised
AllScorersFailed ==
    /\ ens.run_features /\ ens.run_embedding /\ ens.run_llm
    /\ extract_features(ens.transcript).word_count = 0
    /\ ens.result.individual_results.embedding.error
    /\ ens.result.individual_results.llm_domain.error

NoMethodEnabled == ~ens.run_features /\ ~ens.run_embedding /\ ~ens.run_llm

NeutralEnsemble(r) ==
    /\ r.ensemble_score = 300
    /\ r.ensemble_classification = "Medium"
    /\ r.ensemble_confidence = 0
    /\ r.fusion_method = "none"
    /\ r.warning

\* C8: when all three scorers fail, or none is enabled, score_ensemble
\* returns the neutral result: 3.0, Medium, confidence 0.0, fusion "none",
\* with a warning.
C8_AllFailedGivesNeutral ==
    (EnsDone /\ (AllScorersFailed \/ NoMethodEnabled)) => NeutralEnsemble(ens.result)

\* C9: every result has its score in [1.0, 5.0] and its confidence in [0.0, 1.0].
C9_ScoreAndConfidenceInRange ==
    EnsDone =>
        /\ 100 <= ens.result.ensemble_score /\ ens.result.ensemble_score <= 500
        /\ 0 <= ens.result.ensemble_confidence /\ ens.result.ensemble_confidence <= 1000

\* C10: the returned classification is the threshold function of the
\* returned score.
C10_ClassificationMatchesScore ==
    EnsDone =>
        ens.result.ensemble_classification = classify_extraversion(ens.result.ensemble_score)

\* the fused part of a result of score_ensemble
Fused(r) ==
    <<r.ensemble_score, r.ensemble_classification, r.ensemble_confidence,
      r.fusion_method, r.methods_used, r.classification_votes>>

\* C11: when an enabled scorer returns a result carrying an error,
\* score_ensemble completes and its fused score, classification, confidence,
\* fusion method, method count and vote tally equal those of the same call
\* with that scorer disabled.
C11_ErrorContributesNothing ==
    EnsDone =>
        /\ (ens.run_embedding /\ ens.result.individual_results.embedding.error)
              => Fused(ens.result) =
                   Fused(score_ensemble(ens.transcript, ens.run_llm, FALSE,
                                        ens.run_features, ens.emb_reply, ens.llm_reply))
        /\ (ens.run_llm /\ ens.result.individual_results.llm_domain.error)
              => Fused(ens.result) =
                   Fused(score_ensemble(ens.transcript, FALSE, ens.run_embedding,
                                        ens.run_features, ens.emb_reply, ens.llm_reply))

\* the embedding provider raised while the rule scorer and the judgment
\* scorer produced results that were fused
C11_Witness ==
    /\ EnsDone
    /\ ens.run_features /\ ens.run_embedding /\ ens.run_llm
    /\ ens.result.individual_results.embedding.error
    /\ ~ens.result.individual_results.llm_domain.error
    /\ ens.result.methods_used = 2
    /\ ens.result.fusion_method = "confidence_weighted_mean"

\* C12: every result a scorer returned has its score in [1.0, 5.0], its
\* confidence in [0.0, 1.0] and its classification among Low, Medium, High.
C12_ScorerResultsInRange ==
    EnsDone =>
        \A m \in DOMAIN ens.result.individual_results :
            LET r == ens.result.individual_results[m]
            IN  /\ 100 <= r.score /\ r.score <= 500
                /\ 0 <= r.confidence /\ r.confidence <= 1000
                /\ r.classification \in {"Low", "Medium", "High"}

\* C13: for a non-empty transcript, a reply of the judgment model that does
\* not parse, or a failed call, gives the neutral result carrying an error;
\* for an empty transcript the result is neutral whatever the model would say.
C13_ParseFailureIsNeutralWithError ==
    (EnsDone /\ ens.run_llm) =>
        LET r == ens.result.individual_results.llm_domain
        IN  /\ (ens.transcript # <<>> /\ ens.llm_reply.kind \in {"raise", "parse_error"})
                  => (r.score = 300 /\ r.classification = "Medium"
                      /\ r.confidence = 0 /\ r.error)
            /\ ens.transcript = <<>>
                  => (r.score = 300 /\ r.classification = "Medium" /\ r.confidence = 0)

\* C14: below min_words words score_with_embeddings returns the neutral
\* result with a warning whatever the provider would do (it is not called);
\* from min_words words on, a raising provider gives the neutral result
\* carrying an error.
C14_EmbeddingShortCircuitAndFallback ==
    (EnsDone /\ ens.run_embedding) =>
        LET r == ens.result.individual_results.embedding
            neutral == r.score = 300 /\ r.classification = "Medium" /\ r.confidence = 0
        IN  /\ SplitCount(ens.transcript) < min_words
                  => (neutral /\ r.warning /\ ~r.error)
            /\ (SplitCount(ens.transcript) >= min_words /\ ens.emb_reply.kind = "raise")
                  => (neutral /\ r.error)

\* a transcript of exactly min_words words went to a provider that raised
C14_Witness ==
    /\ EnsDone /\ ens.run_embedding
    /\ SplitCount(ens.transcript) = min_words
    /\ ens.emb_reply.kind = "raise"
    /\ ens.result.individual_results.embedding.error

\* C15: a request to /api/respond whose message is empty or longer than
\* MAX_MESSAGE_CHARS is answered with a client error and the step that
\* receives it changes no checkpoint: the graph is not invoked.
C15_InvalidMessageRejected ==
    [][(req' # req /\ CharLen(req'.message) \notin 1..MAX_MESSAGE_CHARS)
         => (threads' = threads /\ http'[WebSession] = ErrorResponse(400))]_vars

\* an over-length message was rejected while the session was suspended after
\* its first turn
C15_Witness ==
    /\ req = Request(LongReply)
    /\ http[WebSession] = ErrorResponse(400)
    /\ Suspended(WebSession)
    /\ State(WebSession).turn_count = 1

\* C17: the response a session last received has status "complete" exactly
\* when the session is finalized, and then carries the score, the
\* classification, the confidence and the per-method breakdown; in progress
\* all of these are null; turn is the session's turn_count.
C17_ResponseMatchesSession ==
    \A s \in Sessions :
        (~Thread(s).active /\ Thread(s).pc # "none" /\ http[s].code = 200) =>
            /\ (http[s].status = "complete") <=> (Thread(s).pc = "end")
            /\ http[s].status \in {"complete", "in-progress"}
            /\ http[s].turn = State(s).turn_count
            /\ http[s].status = "complete" =>
                  /\ http[s].overall_score # Null
                  /\ http[s].classification # Null
                  /\ http[s].confidence # Null
                  /\ http[s].scoring_results # Null
                  /\ "individual_results" \in DOMAIN http[s].scoring_results[1]
            /\ http[s].status = "in-progress" =>
                  /\ http[s].overall_score = Null
                  /\ http[s].classification = Null
                  /\ http[s].confidence = Null
                  /\ http[s].scoring_results = Null

\* the log files data/sessions holds for the logger's session
FilesOf(session_id) == {name \in DOMAIN session_logs : name[1] = session_id}

\* C18: once a session was saved, however often, exactly one log file
\* exists for its session id and it holds the snapshot of the last save.
C18_SaveIsIdempotent ==
    (log.phase = "open" /\ log.last_saved # Null) =>
        /\ Cardinality(FilesOf(log.logger.session_id)) = 1
        /\ log.synced =>
              \A name \in FilesOf(log.logger.session_id) :
                  session_logs[name] = JsonDump(to_dict(log.logger))

AloneProbe(k) == IF k <= Len(ProbePool) THEN ProbePool[k] ELSE FallbackIds[k]

\* the transcript a session running alone builds from its turn records
RECURSIVE AloneTranscript(_)
AloneTranscript(records) ==
    IF records = <<>> THEN <<>>
    ELSE AloneTranscript(SubSeq(records, 1, Len(records) - 1))
         \o <<TurnMarker(Len(records))>> \o records[Len(records)].user_message

\* the state of session s holds what its own run alone gives it
RanAlone(s) ==
    LET st == State(s)
    IN  /\ st.session_id = s
        /\ Len(st.probes_used) \in {st.turn_count, st.turn_count + 1}
        /\ \A k \in DOMAIN st.probes_used : st.probes_used[k] = AloneProbe(k)
        /\ Len(st.turn_records) = st.turn_count
        /\ \A k \in DOMAIN st.turn_records :
              /\ st.turn_records[k].turn_number = k
              /\ st.turn_records[k].ai_message = QuestionFor(AloneProbe(k))
              /\ st.turn_records[k].user_message \in Replies \cup {StopText}
        /\ st.transcript = AloneTranscript(st.turn_records)
        /\ st.classification # "" =>
              \E reply \in ScorerReplies :
                  /\ ~ScorerRaises(st, reply)
                  /\ st.overall_score = scorer_node(st, reply).overall_score
                  /\ st.classification = scorer_node(st, reply).classification
                  /\ st.facet_scores = scorer_node(st, reply).facet_scores

RatioFields ==
    {"positive_emotion_ratio", "negative_emotion_ratio", "social_reference_ratio",
     "first_person_singular_ratio", "first_person_plural_ratio", "assertive_ratio",
     "hedging_ratio", "excitement_ratio", "exclamation_ratio", "question_ratio"}

\* C21: for the text a scoring run extracted features from, every ratio field of
\* extract_features lies in [0, 1], lexical_diversity lies in [0, 1], the two
\* averages are >= 0, and a text without any word gives the all-zero vector.
C21_FeatureRatiosInRange ==
    (EnsDone /\ ens.run_features) =>
        LET f == extract_features(ens.transcript)
        IN  /\ \A k \in RatioFields : f[k] \in 0..10000
            /\ f.lexical_diversity \in 0..1000
            /\ f.avg_sentence_length >= 0
            /\ f.avg_word_length >= 0
            /\ f.word_count >= 0
            /\ _tokenize(ens.transcript) = <<>> => f = ZeroFeatures

\* the step of session s in which interviewer_node returns
InterviewerStep(s) == Running(s, "interviewer") /\ threads'[s].pc = "human_turn"

\* C22: the interviewer step selects the first probe of the pool, in stored
\* order, whose id is not in probes_used, and a fallback probe when every
\* pool id is used; either way it appends exactly that one id to probes_used
\* and exactly one question to the messages.
C22_ProbeSelection ==
    [][InterviewerStep(WebSession) =>
        LET a == threads[WebSession].st
            b == threads'[WebSession].st
            unused == {i \in DOMAIN ProbePool : ProbePool[i] \notin SeqToSet(a.probes_used)}
            id == b.probes_used[Len(b.probes_used)]
        IN  /\ Len(b.probes_used) = Len(a.probes_used) + 1
            /\ SubSeq(b.probes_used, 1, Len(a.probes_used)) = a.probes_used
            /\ unused # {} =>
                 /\ id \in SeqToSet(ProbePool)
                 /\ \E i \in unused : ProbePool[i] = id /\ \A j \in unused : i <= j
            /\ unused = {} => id \in SeqToSet(FallbackIds)
            /\ Len(b.messages) = Len(a.messages) + 1
            /\ SubSeq(b.messages, 1, Len(a.messages)) = a.messages
            /\ b.messages[Len(b.messages)] = [type |-> "ai", content |-> QuestionFor(id)]]_vars

\* the pool was exhausted after two questions and the third question came
\* from the fallback probe
C22_Witness ==
    /\ Suspended(WebSession)
    /\ State(WebSession).turn_count = 2
    /\ Len(State(WebSession).probes_used) = 3
    /\ SubSeq(State(WebSession).probes_used, 1, 2) = ProbePool
    /\ State(WebSession).probes_used[3] \in SeqToSet(FallbackIds)
    /\ Len(State(WebSession).messages) = 5

\* the results of the methods that contributed to a fused result: those
\* that ran and did not report an error
MethodNames == <<"feature_based", "embedding", "llm_domain">>

ContributingResults(r) ==
    LET names == SelectSeq(MethodNames,
                     LAMBDA m : /\ m \in DOMAIN r.individual_results
                                /\ ~r.individual_results[m].error)
    IN  [i \in DOMAIN names |-> r.individual_results[names[i]]]

SumOfScores(rs) == SumSeq([i \in DOMAIN rs |-> rs[i].score])

SumOfConfidences(rs) == SumSeq([i \in DOMAIN rs |-> rs[i].confidence])

SumOfProducts(rs) == SumSeq([i \in DOMAIN rs |-> rs[i].score * rs[i].confidence])

\* num / den clipped to [1.0, 5.0] and rounded to hundredths, den > 0
ClippedMean(num, den) == RoundDiv(Max(100 * den, Min(500 * den, num)), den)

\* C23: over the contributing methods, the fused score is the
\* confidence-weighted mean, named "confidence_weighted_mean", when the sum
\* of the confidences is > 0, and else the arithmetic mean of the scores,
\* named "arithmetic_mean"; either is clipped to [1.0, 5.0].
C23_FusionRule ==
    (EnsDone /\ Len(ContributingResults(ens.result)) > 0) =>
        LET rs == ContributingResults(ens.result)
            w == SumOfConfidences(rs)
        IN  IF w > 0
            THEN /\ ens.result.fusion_method = "confidence_weighted_mean"
                 /\ ens.result.ensemble_score = ClippedMean(SumOfProducts(rs), w)
            ELSE /\ ens.result.fusion_method = "arithmetic_mean"
                 /\ ens.result.ensemble_score = ClippedMean(SumOfScores(rs), Len(rs))

\* three methods contributed with different confidences and the weighted
\* mean differs from the arithmetic mean of their scores
C23_Witness ==
    /\ EnsDone
    /\ Len(ContributingResults(ens.result)) = 3
    /\ ens.result.fusion_method = "confidence_weighted_mean"
    /\ ens.result.ensemble_score = ClippedMean(SumOfProducts(ContributingResults(ens.result)),
                                               SumOfConfidences(ContributingResults(ens.result)))
    /\ ens.result.ensemble_score # ClippedMean(SumOfScores(ContributingResults(ens.result)), 3)

\* TRUE when every contributing method gave the same classification label
SameLabel(rs) == \A i, j \in DOMAIN rs : rs[i].classification = rs[j].classification

\* C24: the fused confidence is the mean of the contributing methods'
\* confidences, plus 0.15 exactly when they all gave the same classification
\* label, capped at 1.0.
C24_FusedConfidence ==
    (EnsDone /\ Len(ContributingResults(ens.result)) > 0) =>
        LET rs == ContributingResults(ens.result)
            n == Len(rs)
            bonus == IF SameLabel(rs) THEN 150 ELSE 0
        IN  /\ ens.result.ensemble_confidence =
                  Min(1000, RoundDiv(SumOfConfidences(rs) + bonus * n, n))
            /\ ens.result.methods_agree = SameLabel(rs)

\* three methods agreed on the label and the bonus raised a fused confidence
\* that stays below the cap
C24_Witness ==
    /\ EnsDone
    /\ Len(ContributingResults(ens.result)) = 3
    /\ SameLabel(ContributingResults(ens.result))
    /\ ens.result.ensemble_confidence < 1000
    /\ ens.result.ensemble_confidence =
          RoundDiv(SumOfConfidences(ContributingResults(ens.result)) + 450, 3)
    /\ SumOfConfidences(ContributingResults(ens.result)) > 0

\* place of a label in the preference order Medium > High > Low
Preference(label) ==
    CASE label = "Medium" -> 1 [] label = "High" -> 2 [] label = "Low" -> 3 [] OTHER -> 4

\* number of contributing results with the given label
Votes(rs, label) == Cardinality({i \in DOMAIN rs : rs[i].classification = label})

MarkerPlaces(transcript) == {i \in DOMAIN transcript : IsMarker(transcript[i])}

\* the place of the k-th turn marker, for k up to the number of markers
MarkerPlace(transcript, k) ==
    CHOOSE p \in MarkerPlaces(transcript) :
        Cardinality({q \in MarkerPlaces(transcript) : q < p}) = k - 1

\* the text between the k-th turn marker and the next one (or the end)
TextAfterMarker(transcript, k) ==
    LET from == MarkerPlace(transcript, k) + 1
        to == IF k < Cardinality(MarkerPlaces(transcript))
              THEN MarkerPlace(transcript, k + 1) - 1
              ELSE Len(transcript)
    IN  SubSeq(transcript, from, to)

\* C26: in every state of a session, the number of turn records, of per-turn
\* feature vectors and of turn markers in the transcript is turn_count, the
\* records carry the turn numbers 1..turn_count in order, and the k-th turn
\* marker of the transcript is "[Turn k]" followed by the k-th human reply.
C26_TranscriptMatchesTurns ==
    Thread(WebSession).pc # "none" =>
        LET st == State(WebSession)
        IN  /\ Len(st.turn_records) = st.turn_count
            /\ Len(st.turn_features) = st.turn_count
            /\ \A k \in DOMAIN st.turn_records : st.turn_records[k].turn_number = k
            /\ Cardinality(MarkerPlaces(st.transcript)) = st.turn_count
            /\ \A k \in 1..st.turn_count :
                  /\ st.transcript[MarkerPlace(st.transcript, k)] = TurnMarker(k)
                  /\ TextAfterMarker(st.transcript, k) = st.turn_records[k].user_message

\* what one step of session s does to its turn records
C27_Step(s) ==
    LET a == threads[s].st
        b == threads'[s].st
        n == Len(a.turn_records)
        record == b.turn_records[n + 1]
    IN  (threads[s].pc # "none" /\ threads'[s].pc # "none") =>
          /\ Len(b.turn_records) \in {n, n + 1}
          /\ SubSeq(b.turn_records, 1, n) = a.turn_records
          /\ Len(b.turn_records) = n + 1 =>
                /\ record.turn_number = n + 1
                /\ record.user_message = a.user_input
                /\ record.user_message \in {req.message, StopText}
                /\ record.ai_message = QuestionFor(a.probes_used[Len(a.probes_used)])
                /\ a.messages[Len(a.messages)] =
                      [type |-> "ai", content |-> record.ai_message]
                /\ record.features = extract_features(record.user_message)

\* C27: while a session exists, every step leaves the turn records it had
\* unchanged as a prefix of the new list and appends at most one; the record
\* appended for turn k holds the reply delivered at turn k, the question
\* that was asked last before it, and the features of the reply.
C27_TurnRecordsAppendOnly == [][C27_Step(WebSession)]_vars

\* the record of a second turn was appended after the record of the first,
\* each with the question of its own turn
C27_Witness ==
    /\ Len(State(WebSession).turn_records) = 2
    /\ State(WebSession).turn_records[1].ai_message = QuestionFor(ProbePool[1])
    /\ State(WebSession).turn_records[2].ai_message = QuestionFor(ProbePool[2])
    /\ State(WebSession).turn_records[1].user_message = MarkerReply
    /\ State(WebSession).turn_records[2].user_message \in Replies

\* TRUE when no element occurs twice in seq
NoDuplicates(seq) == \A i, j \in DOMAIN seq : seq[i] = seq[j] => i = j

RecordedReplies(st) == [k \in DOMAIN st.turn_records |-> st.turn_records[k].user_message]

NoCallInProgress == \A c \in Callers : inflight.calls[c].stage = "idle"

\* C29: respond requests for one session that are handled at the same time
\* behave as if handled one after the other: once no request is in progress,
\* the replies in the turn records are exactly the replies of the requests
\* that were answered, one record each, in the order they were answered, and
\* turn_count equals their number
C29_ConcurrentRespondsSerialize ==
    (inflight.phase = "open" /\ NoCallInProgress) =>
        LET st == threads[WebSession].st
        IN  /\ RecordedReplies(st) = inflight.answered
            /\ st.turn_count = Len(inflight.answered)
            /\ \A k \in DOMAIN st.turn_records : st.turn_records[k].turn_number = k

Started(s) == threads[s].pc # "none"

\* C30: when every external call returns and the human answers each question,
\* every started session eventually reaches Terminated; a terminated session
\* has taken exactly max_turns replies; and a started session that is not
\* running and not terminated is suspended in human_turn, waiting for a reply
C30_SessionTerminates ==
    /\ Started(WebSession) ~> Terminated(WebSession)
    /\ [](Terminated(WebSession) =>
              threads[WebSession].st.turn_count = threads[WebSession].st.max_turns)
    /\ []((Started(WebSession) /\ ~threads[WebSession].active /\ ~Terminated(WebSession))
              => Suspended(WebSession))
====
